---- MODULE Spec2Model ----
(***************************************************************************)
(* A model of mopidy_youtube/youtube.py: the dynamic thread pool           *)
(* (ThreadPool), the identity cache of entries (Entry.get), the futures of *)
(* an entry's fields (async_property, Entry._add_futures,                  *)
(* Entry._set_api_data), the chunked batch load (Video.load_info) and its  *)
(* job, and the job that pages through a playlist (Playlist.videos).       *)
(*                                                                         *)
(* Each part has its own specification over the shared variables; the      *)
(* variables a specification does not use stay at their initial value.     *)
(***************************************************************************)
EXTENDS Integers, Sequences, FiniteSets, TLC

VARIABLES
  pc,              \* pool: position of every thread (clients and workers)
  lock,            \* ThreadPool.lock: 0 when free, else the holding thread
  jobs,            \* ThreadPool.jobs: the list of queued jobs
  threads_active,  \* ThreadPool.threads_active
  cur,             \* pool: the job a worker popped (f, args), NoJob if none
  arg,             \* pool: the job a thread is passing to ThreadPool.run
  cache,           \* Entry.get: the lru_cache, least recently used first
  gpc,             \* Entry.get: position of every caller in the wrapper
  gcall,           \* Entry.get: the (cls, id) a caller passed
  gobj,            \* Entry.get: the object a caller looked up or constructed
  nextObj,         \* the number of Entry objects constructed so far
  made,            \* history: the objects constructed for each (cls, id)
  lastRet,         \* history: the object the latest get(cls, id) returned
  evicted,         \* history: (cls, id) was evicted since get returned it
  linput,          \* load_info: the list passed by the caller
  lhas,            \* load_info: the entries that have a future for every field
  llist,           \* load_info: list, after _add_futures
  li,              \* load_info: the loop variable i
  lpc,             \* load_info: position of the caller
  submitted,       \* load_info: the sublists passed to ThreadPool.run, in order
  apicalls,        \* load_info: for each job, the API.list_videos calls it made
  slot,            \* a Video's __dict__: for each field, the future in '_field'
  fmade,           \* the futures constructed so far
  fqueue,          \* for each future, the content of its _queue
  fdata,           \* for each future, its _data (what get() took from _queue)
  fjobs,           \* the jobs passed to ThreadPool.run and not yet popped
  tpc,             \* position of every thread that uses the Video
  tk,              \* the index of k in the loop over fields
  tfut,            \* _set_api_data: the local variable future
  tfields,         \* _add_futures, _set_api_data: the argument fields
  titem,           \* _set_api_data: item; audio_url.job: the value to set
  tacc,            \* async_property.wrapper: the field of the property
  tadded,          \* _add_futures.add: the local variable added
  theld,           \* the future the latest accessor returned to the thread
  ninfo,           \* history: the load_info jobs passed to ThreadPool.run
  naudio,          \* history: the audio_url jobs passed to ThreadPool.run
  nops,            \* the calls (property reads, searches) clients made so far
  jsub,            \* load_info.job: the argument sublist
  jseed,           \* history: how each Video was seeded before load_info
  jcall,           \* load_info.job: the outcome of API.list_videos
  jdict,           \* load_info.job: dict.get(id), for every id
  jq,              \* for each Video and field, the content of its _queue
  jd,              \* for each Video and field, its _data
  jpc,             \* load_info.job: position
  je,              \* load_info.job: the index of video in sublist
  jk,              \* _set_api_data: the index of k in fields
  vlen,            \* the number of videos the remote playlist has
  vpc,             \* Playlist.videos.job: position
  vall,            \* Playlist.videos.job: all_videos
  vpage,           \* Playlist.videos.job: page, as <<is not None, offset>>
  vdata,           \* Playlist.videos.job: data, the response to a request
  vset,            \* the future _videos: <<is set, value>>
  vreq,            \* history: <<len(all_videos), max_results>> of each request
  vfailed          \* history: a request has failed

poolVars == <<pc, lock, jobs, threads_active, cur, arg>>
cacheVars == <<cache, gpc, gcall, gobj, nextObj, made, lastRet, evicted>>

loadVars == <<linput, lhas, llist, li, lpc, submitted, apicalls>>

fieldVars ==
  <<slot, fmade, fqueue, fdata, fjobs, tpc, tk, tfut, tfields, titem, tacc,
    tadded, theld, ninfo, naudio, nops>>

jobVars == <<jsub, jseed, jcall, jdict, jq, jd, jpc, je, jk>>

videosVars == <<vlen, vpc, vall, vpage, vdata, vset, vreq, vfailed>>

otherThanPool == <<cacheVars, loadVars, fieldVars, jobVars, videosVars>>
otherThanCache == <<poolVars, loadVars, fieldVars, jobVars, videosVars>>
otherThanLoad == <<poolVars, cacheVars, fieldVars, jobVars, videosVars>>
otherThanField == <<poolVars, cacheVars, loadVars, jobVars, videosVars>>
otherThanJob == <<poolVars, cacheVars, loadVars, fieldVars, videosVars>>
otherThanVideos == <<poolVars, cacheVars, loadVars, fieldVars, jobVars>>

vars == <<poolVars, cacheVars, loadVars, fieldVars, jobVars, videosVars>>

(***************************************************************************)
(* Bounds of the model.  threads_max is ThreadPool.threads_max (15 in the  *)
(* source, youtube.py:368), scaled down.                                   *)
(***************************************************************************)
threads_max == 2
MaxJobs == 2

\* cache_max_len is Entry.cache_max_len (400 in the source, youtube.py:48),
\* scaled down; NumIds ids for each of the two classes; at most MaxObjs
\* objects are constructed in a run.
cache_max_len == 2
NumIds == 2
MaxObjs == 4

\* load_info is called with a list of up to MaxLoad entries, of which the
\* first MaxHas may have all their futures already.
MaxLoad == 101
MaxHas == 2
\* the calls that the clients of a Video make, when they are two threads
\* and when they are one
MaxOps == 2
MaxSeqOps == 4
\* the Videos that a load_info job may find in its sublist
NumVideos == 2
\* the most videos a remote playlist has
MaxMembers == 62

\* Playlist.max_videos, its default
max_videos == 60
\* The most items Playlist.videos.job asks for in one request:
\* min(self.max_videos - len(all_videos), 50)
PageMax == 50

\* The chunk size of load_info: range(0, len(list), 50), list[i:i+50].
ChunkSize == 50

(***************************************************************************)
(*                              ThreadPool                                 *)
(***************************************************************************)
\* Worker threads: one more identity than threads_max, so that a pool that
\* spawned beyond its maximum would have a thread to spawn.
Workers == 1 .. (threads_max + 1)
\* One client thread calls ThreadPool.run from outside the pool; the workers
\* whose job calls ThreadPool.run are the other submitters.
Clients == {threads_max + 2}
Threads == Workers \cup Clients

\* A job is named by an id.  The jobs a client submits have the ids JobIds;
\* a job that such a job submits from inside (as Playlist.videos' job does
\* through Video.load_info) has the id ChildJob and submits nothing itself.
\* An id is used again once its job has returned.
JobIds == 1 .. MaxJobs
ChildJob == MaxJobs + 1
NoJob == 0

RECURSIVE SeqRange(_)
SeqRange(s) == IF s = <<>> THEN {} ELSE {Head(s)} \cup SeqRange(Tail(s))

\* The ids of the jobs that are queued, being submitted or being applied.
IdsInUse ==
  SeqRange(jobs) \cup {cur[t] : t \in Workers} \cup {arg[t] : t \in Threads}
IdFree(j) == j \notin IdsInUse

PoolInit ==
  /\ pc = [t \in Threads |-> IF t \in Workers THEN "dead" ELSE "idle"]
  /\ lock = 0
  /\ jobs = <<>>
  /\ threads_active = 0
  /\ cur = [t \in Workers |-> NoJob]
  /\ arg = [t \in Threads |-> NoJob]

\* A client calls ThreadPool.run(f, args); the new job gets the least free id.
Submit(t) ==
  /\ t \in Clients
  /\ pc[t] = "idle"
  /\ \E j \in JobIds :
       /\ IdFree(j)
       /\ \A i \in JobIds : i < j => ~IdFree(i)
       /\ arg' = [arg EXCEPT ![t] = j]
  /\ pc' = [pc EXCEPT ![t] = "run_acquire"]
  /\ UNCHANGED <<lock, jobs, threads_active, cur>>

\* ThreadPool.run: cls.lock.acquire()
RunAcquire(t) ==
  /\ pc[t] = "run_acquire"
  /\ lock = 0
  /\ lock' = t
  /\ pc' = [pc EXCEPT ![t] = "run_append"]
  /\ UNCHANGED <<jobs, threads_active, cur, arg>>

\* ThreadPool.run: cls.jobs.append((f, args))
RunAppend(t) ==
  /\ pc[t] = "run_append"
  /\ jobs' = Append(jobs, arg[t])
  /\ pc' = [pc EXCEPT ![t] = "run_check"]
  /\ UNCHANGED <<lock, threads_active, cur, arg>>

MaySpawnOffByOne == threads_active <= threads_max

MaySpawnReversed == threads_active > threads_max

\* The condition under which ThreadPool.run starts a thread.
MaySpawn == threads_active < threads_max

\* ThreadPool.run: if cls.threads_active < cls.threads_max: thread.start()
RunCheck(t) ==
  /\ pc[t] = "run_check"
  /\ IF MaySpawn
       THEN \E w \in Workers :
              /\ pc[w] = "dead"
              /\ \A v \in Workers : v < w => pc[v] # "dead"
              /\ pc' = [pc EXCEPT ![t] = "run_incr", ![w] = "w_acquire"]
       ELSE pc' = [pc EXCEPT ![t] = "run_release"]
  /\ UNCHANGED <<lock, jobs, threads_active, cur, arg>>

\* ThreadPool.run: cls.threads_active += 1
RunIncr(t) ==
  /\ pc[t] = "run_incr"
  /\ threads_active' = threads_active + 1
  /\ pc' = [pc EXCEPT ![t] = "run_release"]
  /\ UNCHANGED <<lock, jobs, cur, arg>>

\* ThreadPool.run: cls.lock.release(), and the return to the caller: a
\* client is idle again; in a worker, the job that called run returns.
RunRelease(t) ==
  /\ pc[t] = "run_release"
  /\ lock' = 0
  /\ pc' = [pc EXCEPT ![t] = IF t \in Workers THEN "w_acquire" ELSE "idle"]
  /\ arg' = [arg EXCEPT ![t] = NoJob]
  /\ cur' = [w \in Workers |-> IF w = t THEN NoJob ELSE cur[w]]
  /\ UNCHANGED <<jobs, threads_active>>

\* ThreadPool.worker: cls.lock.acquire()
WorkerAcquire(w) ==
  /\ w \in Workers
  /\ pc[w] = "w_acquire"
  /\ lock = 0
  /\ lock' = w
  /\ pc' = [pc EXCEPT ![w] = "w_locked"]
  /\ UNCHANGED <<jobs, threads_active, cur, arg>>

NoJobsCountKept(n) == n
NoJobsCountTwice(n) == n - 2

\* The change of the counter when a worker finds no job.
NoJobsCount(n) == n - 1

\* ThreadPool.worker: if len(cls.jobs): f, args = cls.jobs.pop()
\* list.pop() takes the last element.
WorkerPop(w) ==
  /\ w \in Workers
  /\ pc[w] = "w_locked"
  /\ Len(jobs) > 0
  /\ cur' = [cur EXCEPT ![w] = jobs[Len(jobs)]]
  /\ jobs' = SubSeq(jobs, 1, Len(jobs) - 1)
  /\ pc' = [pc EXCEPT ![w] = "w_release"]
  /\ UNCHANGED <<lock, threads_active, arg>>

\* ThreadPool.worker: else: cls.threads_active -= 1
WorkerNoJobs(w) ==
  /\ w \in Workers
  /\ pc[w] = "w_locked"
  /\ Len(jobs) = 0
  /\ threads_active' = NoJobsCount(threads_active)
  /\ pc' = [pc EXCEPT ![w] = "w_exit"]
  /\ UNCHANGED <<lock, jobs, cur, arg>>

\* ThreadPool.worker: cls.lock.release(); break
WorkerExit(w) ==
  /\ w \in Workers
  /\ pc[w] = "w_exit"
  /\ lock' = 0
  /\ pc' = [pc EXCEPT ![w] = "dead"]
  /\ UNCHANGED <<jobs, threads_active, cur, arg>>

LockAfterPopHeld(w) == w

\* The lock once the worker that popped a job has released it.
LockAfterPop(w) == 0

\* ThreadPool.worker: cls.lock.release() after the pop
WorkerRelease(w) ==
  /\ w \in Workers
  /\ pc[w] = "w_release"
  /\ lock' = LockAfterPop(w)
  /\ pc' = [pc EXCEPT ![w] = "w_apply"]
  /\ UNCHANGED <<jobs, threads_active, cur, arg>>

\* ThreadPool.worker: apply(f, args) of a job that returns.
WorkerApplyOk(w) ==
  /\ w \in Workers
  /\ pc[w] = "w_apply"
  /\ cur' = [cur EXCEPT ![w] = NoJob]
  /\ pc' = [pc EXCEPT ![w] = "w_acquire"]
  /\ UNCHANGED <<lock, jobs, threads_active, arg>>

\* ThreadPool.worker: apply(f, args) of a job that raises: control passes to
\* the except clause.
WorkerApplyRaise(w) ==
  /\ w \in Workers
  /\ pc[w] = "w_apply"
  /\ pc' = [pc EXCEPT ![w] = "w_except"]
  /\ UNCHANGED <<lock, jobs, threads_active, cur, arg>>

AfterExceptDies == "dead"

\* Where a worker continues after the except clause: the while loop goes on.
AfterExcept == "w_acquire"

\* ThreadPool.worker: except Exception as e: logger.error(...)
WorkerExcept(w) ==
  /\ w \in Workers
  /\ pc[w] = "w_except"
  /\ cur' = [cur EXCEPT ![w] = NoJob]
  /\ pc' = [pc EXCEPT ![w] = AfterExcept]
  /\ UNCHANGED <<lock, jobs, threads_active, arg>>

\* ThreadPool.worker: apply(f, args) of a job that calls ThreadPool.run
\* itself (Playlist.videos' job, through Video.load_info).
WorkerApplyNested(w) ==
  /\ w \in Workers
  /\ pc[w] = "w_apply"
  /\ cur[w] \in JobIds
  /\ IdFree(ChildJob)
  /\ arg' = [arg EXCEPT ![w] = ChildJob]
  /\ pc' = [pc EXCEPT ![w] = "run_acquire"]
  /\ UNCHANGED <<lock, jobs, threads_active, cur>>

RunStep(t) ==
  \/ RunAcquire(t)
  \/ RunAppend(t)
  \/ RunCheck(t)
  \/ RunIncr(t)
  \/ RunRelease(t)

WorkerStep(w) ==
  \/ WorkerAcquire(w)
  \/ WorkerPop(w)
  \/ WorkerNoJobs(w)
  \/ WorkerExit(w)
  \/ WorkerRelease(w)
  \/ WorkerApplyOk(w)
  \/ WorkerApplyRaise(w)
  \/ WorkerExcept(w)
  \/ WorkerApplyNested(w)

PoolNext ==
  /\ \/ \E t \in Clients : Submit(t)
     \/ \E t \in Threads : RunStep(t)
     \/ \E w \in Workers : WorkerStep(w)
  /\ UNCHANGED otherThanPool

\* Fair thread scheduling: every thread that can take a step infinitely often
\* takes one (strong fairness, as a thread waiting for the lock can take its
\* step only while the lock is free).  Nothing obliges a client to submit.
ThreadStep(t) == (RunStep(t) \/ WorkerStep(t)) /\ UNCHANGED otherThanPool

PoolFairness == \A t \in Threads : SF_vars(ThreadStep(t))


(***************************************************************************)
(*                         Claims on the ThreadPool                        *)
(***************************************************************************)
LiveWorkers == {w \in Workers : pc[w] # "dead"}

\* C1: in every reachable state the count of active workers
\* (threads_active, and the number of live worker threads) is at most
\* threads_max, whoever submits and however many jobs are queued.
PoolBound ==
  /\ threads_active <= threads_max
  /\ Cardinality(LiveWorkers) <= threads_max

\* C1 witness: a submit reaches the test of run while the pool is at its
\* maximum and more jobs than threads_max are queued.
PoolBoundWitness ==
  \E t \in Threads :
    /\ pc[t] = "run_check"
    /\ threads_active = threads_max
    /\ Len(jobs) > threads_max

AllJobIds == JobIds \cup {ChildJob}
Queued(j) == \E i \in 1 .. Len(jobs) : jobs[i] = j
Applied(j) == \E w \in Workers : pc[w] = "w_apply" /\ cur[w] = j
ClientSubmits == \E t \in Clients : Submit(t)

\* C2 as stated: under fair scheduling every queued job is eventually
\* popped and applied by some worker.
EveryJobRuns == \A j \in AllJobIds : Queued(j) ~> Applied(j)

\* C2 amended: under fair scheduling, if the clients eventually stop
\* submitting, every queued job is eventually popped and applied by some
\* worker.
EveryJobRunsOnceSubmitsStop ==
  (<>[][~ClientSubmits]_vars) => (\A j \in AllJobIds : Queued(j) ~> Applied(j))

\* C2 witness: a submit waits for the lock while a worker that saw the empty
\* queue is exiting.
SubmitMeetsExitingWorker ==
  \E w \in Workers, t \in Threads :
    /\ pc[w] = "w_exit"
    /\ pc[t] = "run_acquire"
    /\ arg[t] # NoJob

Quiescent ==
  /\ jobs = <<>>
  /\ threads_active = 0
  /\ LiveWorkers = {}
  /\ lock = 0

\* A step of ThreadPool.run's test taken while no worker is active starts one.
FreshWorker ==
  \A t \in Threads :
    (pc[t] = "run_check" /\ threads_active = 0 /\ pc'[t] # "run_check")
      => \E w \in Workers : pc[w] = "dead" /\ pc'[w] = "w_acquire"

\* C3: once the clients stop submitting and the running jobs have returned,
\* the queue is empty, threads_active is 0 and every worker has exited, for
\* good; and a submit that finds no active worker starts a fresh one.
PoolElasticity ==
  /\ (<>[][~ClientSubmits]_vars) => <>[]Quiescent
  /\ [][FreshWorker]_vars

\* C3 witness: the last worker has seen the empty queue and is exiting,
\* with threads_active back at 0.
LastWorkerExits ==
  \E w \in Workers :
    /\ pc[w] = "w_exit"
    /\ LiveWorkers = {w}
    /\ threads_active = 0
    /\ jobs = <<>>

\* C4: the step a worker takes out of the except clause, after its job
\* raised, leads it back to the head of its loop (it does not terminate),
\* and changes neither threads_active nor the queue; the worker does not
\* hold the lock meanwhile, so the other workers go on too.
ErrorIsolation ==
  /\ [][\A w \in Workers :
          (pc[w] = "w_except" /\ pc'[w] # "w_except")
            => /\ pc'[w] = "w_acquire"
               /\ threads_active' = threads_active
               /\ jobs' = jobs]_vars
  /\ [](\A w \in Workers : pc[w] = "w_except" => lock # w /\ threads_active >= 1)

\* C4 witness: a job has raised in a worker while another job is queued
\* behind it.
RaisedWithJobsQueued ==
  \E w \in Workers : pc[w] = "w_except" /\ jobs # <<>>

\* The positions of ThreadPool.run and ThreadPool.worker between
\* lock.acquire() and lock.release().
LockedPositions ==
  {"run_append", "run_check", "run_incr", "run_release",
   "w_locked", "w_release", "w_exit"}

\* C17: a thread holds the lock exactly while it is between acquire and
\* release in run or worker, where only jobs and threads_active are read
\* and changed: never while it applies a job; and under fair scheduling a
\* job that calls ThreadPool.run gets the lock and returns from run.
LockOnlyAroundQueue ==
  /\ [](\A t \in Threads : lock = t <=> pc[t] \in LockedPositions)
  /\ [](\A w \in Workers : pc[w] \in {"w_apply", "w_except"} => lock # w)
  /\ \A w \in Workers :
       (pc[w] = "run_acquire") ~> (pc[w] = "w_acquire" /\ arg[w] = NoJob)

\* C17 witness: a job calls ThreadPool.run while the pool has threads_max
\* workers and another thread holds the lock.
NestedSubmitAtMax ==
  \E w \in Workers :
    /\ pc[w] = "run_acquire"
    /\ cur[w] # NoJob
    /\ threads_active = threads_max
    /\ lock # 0

\* C19: threads_active is never negative, and while the lock is free it is
\* the number of workers that were started and have not yet found jobs
\* empty, and it is at least 1 if a job is queued.
NoStrandedJob ==
  /\ threads_active >= 0
  /\ lock = 0 =>
       /\ threads_active = Cardinality(LiveWorkers)
       /\ Len(jobs) > 0 => threads_active >= 1

\* C19 witness: the lock is free, jobs are queued and the pool has its
\* maximum of workers, one of which applies a job.
StrandedWitness ==
  /\ lock = 0
  /\ Len(jobs) > 0
  /\ threads_active = threads_max
  /\ \E w \in Workers : pc[w] = "w_apply"
  /\ \E w \in Workers : pc[w] = "w_acquire"

(***************************************************************************)
(*                  Entry.get: the identity cache                          *)
(*                                                                         *)
(* get is a classmethod wrapped by cachetools' func.lru_cache: the wrapper *)
(* looks the key (cls, id) up under the cache's lock; on a miss it calls   *)
(* the function outside the lock, stores the result under the lock and     *)
(* returns it.                                                             *)
(***************************************************************************)
Kinds == {"Video", "Playlist"}
Ids == 1 .. NumIds
Calls == Kinds \X Ids
GetThreads == {1, 2}
NoObj == 0

KeyOfIdOnly(kind, id) == <<"Video", id>>

\* The cache key of a call cls.get(id): lru_cache hashes all the arguments
\* of the wrapped function, cls included.
KeyOf(kind, id) == <<kind, id>>

CacheKeys(c) == {c[i].key : i \in 1 .. Len(c)}
CacheIndex(c, k) == CHOOSE i \in 1 .. Len(c) : c[i].key = k
Without(c, i) == SubSeq(c, 1, i - 1) \o SubSeq(c, i + 1, Len(c))

\* LRUCache.__getitem__ of a present key: the value; the key becomes the
\* most recently used.
CacheValue(c, k) == c[CacheIndex(c, k)].obj
Touch(c, k) == Append(Without(c, CacheIndex(c, k)), c[CacheIndex(c, k)])

\* LRUCache.__setitem__: a present key gets the new value; for a new key the
\* least recently used items are popped while the cache is full.
Put(c, k, v) ==
  IF k \in CacheKeys(c)
    THEN Append(Without(c, CacheIndex(c, k)), [key |-> k, obj |-> v])
    ELSE IF Len(c) >= cache_max_len
      THEN Append(SubSeq(c, Len(c) - cache_max_len + 2, Len(c)),
                  [key |-> k, obj |-> v])
      ELSE Append(c, [key |-> k, obj |-> v])

\* The keys that Put(c, k, v) evicts.
Evicts(c, k) == CacheKeys(c) \ (CacheKeys(Put(c, k, NoObj)))

CacheIdle ==
  /\ cache = <<>>
  /\ gpc = [t \in GetThreads |-> "idle"]
  /\ gcall = [t \in GetThreads |-> <<"Video", 1>>]
  /\ gobj = [t \in GetThreads |-> NoObj]
  /\ nextObj = 0
  /\ made = [c \in Calls |-> {}]
  /\ lastRet = [c \in Calls |-> NoObj]
  /\ evicted = [c \in Calls |-> FALSE]

InFlight == {t \in GetThreads : gpc[t] \in {"lookup", "call"}}

\* A thread calls cls.get(id), with (cls, id) among the calls cs.
GetCall(t, cs) ==
  /\ gpc[t] = "idle"
  /\ nextObj + Cardinality(InFlight) < MaxObjs
  /\ \E c \in cs : gcall' = [gcall EXCEPT ![t] = c]
  /\ gpc' = [gpc EXCEPT ![t] = "lookup"]
  /\ gobj' = [gobj EXCEPT ![t] = NoObj]
  /\ UNCHANGED <<cache, nextObj, made, lastRet, evicted>>

\* lru_cache wrapper: with lock: v = cache[k]; return v -- the key is there.
GetHit(t) ==
  /\ gpc[t] = "lookup"
  /\ LET k == KeyOf(gcall[t][1], gcall[t][2]) IN
       /\ k \in CacheKeys(cache)
       /\ gobj' = [gobj EXCEPT ![t] = CacheValue(cache, k)]
       /\ cache' = Touch(cache, k)
  /\ gpc' = [gpc EXCEPT ![t] = "ret"]
  /\ UNCHANGED <<gcall, nextObj, made, lastRet, evicted>>

\* lru_cache wrapper: with lock: cache[k] raises KeyError -- a miss.
GetMiss(t) ==
  /\ gpc[t] = "lookup"
  /\ KeyOf(gcall[t][1], gcall[t][2]) \notin CacheKeys(cache)
  /\ gpc' = [gpc EXCEPT ![t] = "call"]
  /\ UNCHANGED <<cache, gcall, gobj, nextObj, made, lastRet, evicted>>

\* Entry.get: obj = cls(); obj.id = id -- called outside the cache's lock.
GetConstruct(t) ==
  /\ gpc[t] = "call"
  /\ nextObj' = nextObj + 1
  /\ gobj' = [gobj EXCEPT ![t] = nextObj + 1]
  /\ made' = [made EXCEPT ![gcall[t]] = @ \cup {nextObj + 1}]
  /\ gpc' = [gpc EXCEPT ![t] = "insert"]
  /\ UNCHANGED <<cache, gcall, lastRet, evicted>>

\* lru_cache wrapper: with lock: cache[k] = v
GetInsert(t) ==
  /\ gpc[t] = "insert"
  /\ LET k == KeyOf(gcall[t][1], gcall[t][2]) IN
       /\ cache' = Put(cache, k, gobj[t])
       /\ evicted' = [c \in Calls |->
                        IF KeyOf(c[1], c[2]) \in Evicts(cache, k)
                          THEN TRUE ELSE evicted[c]]
  /\ gpc' = [gpc EXCEPT ![t] = "ret"]
  /\ UNCHANGED <<gcall, gobj, nextObj, made, lastRet>>

\* lru_cache wrapper: return v
GetReturn(t) ==
  /\ gpc[t] = "ret"
  /\ lastRet' = [lastRet EXCEPT ![gcall[t]] = gobj[t]]
  /\ evicted' = [evicted EXCEPT ![gcall[t]] = FALSE]
  /\ gpc' = [gpc EXCEPT ![t] = "idle"]
  /\ UNCHANGED <<cache, gcall, gobj, nextObj, made>>

GetStep(t, cs) ==
  \/ GetCall(t, cs)
  \/ GetHit(t)
  \/ GetMiss(t)
  \/ GetConstruct(t)
  \/ GetInsert(t)
  \/ GetReturn(t)

\* Any sequence of get calls, one at a time, over more keys than the cache
\* holds.
CacheNext == GetStep(1, Calls) /\ UNCHANGED otherThanCache


\* Concurrent get calls over no more keys than the cache holds, so that
\* nothing is evicted.
FewCalls == {c \in Calls : c[1] = "Video" /\ c[2] <= cache_max_len}

CacheConcNext == (\E t \in GetThreads : GetStep(t, FewCalls)) /\ UNCHANGED otherThanCache


(***************************************************************************)
(*                          Claims on Entry.get                            *)
(***************************************************************************)
\* C8 as stated: under concurrent calls of get for a key that is not cached
\* only one object is constructed for the key, and every caller gets it.
OneEntityPerKey ==
  /\ \A c \in Calls : Cardinality(made[c]) <= 1
  /\ \A t \in GetThreads, u \in GetThreads :
       (gpc[t] = "ret" /\ gpc[u] = "ret" /\ gcall[t] = gcall[u])
         => gobj[t] = gobj[u]

\* C9 as stated: any two calls get(cls, id) return the same object and no
\* two objects are ever constructed for one (cls, id).
SameEntityAlways ==
  /\ \A c \in Calls : Cardinality(made[c]) <= 1
  /\ \A t \in GetThreads :
       (gpc[t] = "ret" /\ lastRet[gcall[t]] # NoObj)
         => gobj[t] = lastRet[gcall[t]]

\* C9 amended: in a sequence of get calls, a call get(cls, id) returns an
\* object constructed for that (cls, id), and the same object as the call
\* get(cls, id) before it unless the key was evicted in between; a second
\* object is constructed for a (cls, id) only after its key was evicted; the
\* cache holds at most cache_max_len keys, each once.
SameEntityUntilEvicted ==
  /\ [](\A t \in GetThreads :
          gpc[t] = "ret" =>
            /\ gobj[t] \in made[gcall[t]]
            /\ (lastRet[gcall[t]] # NoObj /\ ~evicted[gcall[t]])
                 => gobj[t] = lastRet[gcall[t]])
  /\ [][\A c \in Calls :
          made'[c] # made[c] => (made[c] = {} \/ evicted[c])]_vars
  /\ [](/\ Len(cache) <= cache_max_len
        /\ \A i \in 1 .. Len(cache), j \in 1 .. Len(cache) :
             cache[i].key = cache[j].key => i = j)

\* C9 witness: a call returns the object of the earlier call for its key
\* although the calls between them filled the cache and evicted another key.
HitInFullCache ==
  \E t \in GetThreads :
    /\ gpc[t] = "ret"
    /\ lastRet[gcall[t]] = gobj[t]
    /\ gobj[t] # NoObj
    /\ Len(cache) = cache_max_len
    /\ \E c \in Calls : evicted[c]

(***************************************************************************)
(*              Video.load_info / Playlist.load_info: chunking             *)
(*                                                                         *)
(* The two load_info differ in the fields and in the API call only.        *)
(***************************************************************************)
Min(a, b) == IF a < b THEN a ELSE b

\* Entry._add_futures: filter(add, list) keeps, in order, the entries to
\* which add added a future, those that lacked one for some field.
AddFutures(list, has) == SelectSeq(list, LAMBDA e : e \notin has)

SubListShort(list, i) == SubSeq(list, i + 1, Min(i + ChunkSize - 1, Len(list)))

\* load_info: sublist = list[i:i+50]
SubList(list, i) == SubSeq(list, i + 1, Min(i + ChunkSize, Len(list)))

LoadIdle ==
  /\ linput = <<>>
  /\ lhas = {}
  /\ llist = <<>>
  /\ li = 0
  /\ lpc = "idle"
  /\ submitted = <<>>
  /\ apicalls = <<>>

\* A caller calls load_info(list) with n entries.
LoadInit ==
  /\ \E n \in 0 .. MaxLoad : linput = [e \in 1 .. n |-> e]
  /\ lhas \in SUBSET (1 .. MaxHas)
  /\ llist = <<>>
  /\ li = 0
  /\ lpc = "filter"
  /\ submitted = <<>>
  /\ apicalls = <<>>

\* load_info: list = cls._add_futures(list, fields)
LoadFilter ==
  /\ lpc = "filter"
  /\ llist' = AddFutures(linput, lhas)
  /\ lhas' = lhas \cup {linput[k] : k \in 1 .. Len(linput)}
  /\ li' = 0
  /\ lpc' = "loop"
  /\ UNCHANGED <<linput, submitted, apicalls>>

\* load_info: for i in range(0, len(list), 50): sublist = list[i:i+50];
\* ThreadPool.run(job, (sublist,))
LoadSubmit ==
  /\ lpc = "loop"
  /\ li < Len(llist)
  /\ submitted' = Append(submitted, SubList(llist, li))
  /\ apicalls' = Append(apicalls, <<>>)
  /\ li' = li + ChunkSize
  /\ UNCHANGED <<linput, lhas, llist, lpc>>

\* load_info: the range is exhausted.
LoadReturn ==
  /\ lpc = "loop"
  /\ li >= Len(llist)
  /\ lpc' = "done"
  /\ UNCHANGED <<linput, lhas, llist, li, submitted, apicalls>>

\* load_info.job, run by a worker at any later time:
\* data = API.list_videos([x.id for x in sublist])
LoadJob ==
  /\ \E j \in 1 .. Len(submitted) :
       /\ apicalls[j] = <<>>
       /\ apicalls' = [apicalls EXCEPT ![j] = Append(@, submitted[j])]
  /\ UNCHANGED <<linput, lhas, llist, li, lpc, submitted>>

LoadNext ==
  /\ \/ LoadFilter
     \/ LoadSubmit
     \/ LoadReturn
     \/ LoadJob
  /\ UNCHANGED otherThanLoad


(***************************************************************************)
(*                           Claims on load_info                           *)
(***************************************************************************)
RECURSIVE Flatten(_)
Flatten(ss) == IF ss = <<>> THEN <<>> ELSE Head(ss) \o Flatten(Tail(ss))

Ceil(n, d) == (n + d - 1) \div d

AllMiss == \A k \in 1 .. Len(linput) : linput[k] \notin lhas

\* C10: when load_info has returned for a list of N entries that all missed
\* a field, it has submitted exactly ceil(N/50) jobs; the sublists have at
\* most 50 entries each, are pairwise disjoint, and concatenated in the
\* order of submission they are the input list; and a job that has run has
\* made exactly one list call, for the ids of its sublist.
Chunking ==
  /\ (lpc = "filter" /\ AllMiss) => AddFutures(linput, lhas) = linput
  /\ lpc = "done" =>
       /\ Len(submitted) = Ceil(Len(llist), ChunkSize)
       /\ Flatten(submitted) = llist
  /\ \A j \in 1 .. Len(submitted) :
       /\ Len(submitted[j]) >= 1
       /\ Len(submitted[j]) <= ChunkSize
       /\ apicalls[j] \in {<<>>, <<submitted[j]>>}
       /\ \A k \in 1 .. Len(submitted) :
            j # k => \A a \in 1 .. Len(submitted[j]), b \in 1 .. Len(submitted[k]) :
                       submitted[j][a] # submitted[k][b]

\* C10 witness: load_info has returned for more than two full chunks of
\* entries that all missed a field, and every job has made its call.
ChunkingWitness ==
  /\ lpc = "done"
  /\ llist = linput
  /\ Len(linput) > 2 * ChunkSize
  /\ Len(submitted) = 3
  /\ \A j \in 1 .. Len(submitted) : apicalls[j] # <<>>


(***************************************************************************)
(*        The futures of the fields of one Video shared by threads         *)
(*                                                                         *)
(* Client threads read the properties of the Video (async_property), seed  *)
(* it from a search result (Entry.search) and read the futures; a worker   *)
(* thread runs the jobs passed to ThreadPool.run.  No lock protects the    *)
(* Video's __dict__ beyond the interpreter's: a test of a key, a load and  *)
(* a store of a key are steps of their own.  The critical sections of the  *)
(* ThreadPool are taken as one step each.                                  *)
(*                                                                         *)
(* A pykka.ThreadingFuture holds a Queue of size 1 (_queue) and a cell     *)
(* (_data): set(v) puts v into _queue without blocking and raises Full if  *)
(* it is occupied; get() returns _data, after moving the content of _queue *)
(* into it if _data was empty.                                             *)
(***************************************************************************)
FClients == {1, 2}
FWorkers == {3}
FThreads == FClients \cup FWorkers

\* fields of Video.load_info, in its order
InfoFields == <<"title", "length", "channel">>
\* fields of Entry.search's create_object for a video
SearchFields == <<"title", "channel">>
Fields == {"title", "length", "channel", "audio_url"}

\* A thread constructs at most one future for a field, as it constructs one
\* only after it found none in the slot: a future is named by the field and
\* the thread that constructed it.
Futures == Fields \X FThreads
NoFuture == <<"none", 0>>

\* Values: None, the value of a field in a search result, in the response
\* of API.list_videos, and the url that pafy finds.
None == "None"
SearchVal == "a"
PageVal == "p"
ListVal == "b"
UrlVal == "url"
Empty == "Empty"

FieldIdle ==
  /\ slot = [f \in Fields |-> NoFuture]
  /\ fmade = {}
  /\ fqueue = [h \in Futures |-> Empty]
  /\ fdata = [h \in Futures |-> Empty]
  /\ fjobs = <<>>
  /\ tpc = [t \in FThreads |-> "idle"]
  /\ tk = [t \in FThreads |-> 0]
  /\ tfut = [t \in FThreads |-> NoFuture]
  /\ tfields = [t \in FThreads |-> <<>>]
  /\ titem = [t \in FThreads |-> None]
  /\ tacc = [t \in FThreads |-> "none"]
  /\ tadded = [t \in FThreads |-> FALSE]
  /\ theld = [t \in FThreads |-> NoFuture]
  /\ ninfo = 0
  /\ naudio = 0
  /\ nops = 0

Locals == <<tk, tfut, tfields, titem, tacc, tadded>>
Heap == <<slot, fmade, fqueue, fdata>>
Pool == <<fjobs, ninfo, naudio, nops>>

\* async_property.wrapper: a client reads the property f:
\* if _future_name not in self.__dict__: apply(func, (self,))
\* func is load_info([self]) for title, length and channel, and the body of
\* audio_url for audio_url.
Access(t, f) ==
  /\ t \in FClients
  /\ tpc[t] = "idle"
  /\ nops' = nops + 1
  /\ tacc' = [tacc EXCEPT ![t] = f]
  /\ IF slot[f] # NoFuture
       THEN /\ tpc' = [tpc EXCEPT ![t] = "acc_ret"]
            /\ UNCHANGED <<tk, tfields>>
       ELSE IF f = "audio_url"
         THEN /\ tpc' = [tpc EXCEPT ![t] = "audio_new"]
              /\ UNCHANGED <<tk, tfields>>
         ELSE /\ tpc' = [tpc EXCEPT ![t] = "add_check"]
              /\ tk' = [tk EXCEPT ![t] = 1]
              /\ tfields' = [tfields EXCEPT ![t] = InfoFields]
  /\ UNCHANGED <<Heap, fjobs, ninfo, naudio, tfut, titem, tadded, theld>>

\* _add_futures.add: the next round of for k in fields, or return added.
AddAdvance(t) ==
  IF tk[t] < Len(tfields[t])
    THEN /\ tk' = [tk EXCEPT ![t] = @ + 1]
         /\ tpc' = [tpc EXCEPT ![t] = "add_check"]
         /\ UNCHANGED tfields
    ELSE /\ tk' = [tk EXCEPT ![t] = 0]
         /\ tpc' = [tpc EXCEPT ![t] = "add_done"]
         /\ tfields' = [tfields EXCEPT ![t] = <<>>]

\* _add_futures.add: if '_'+k not in obj.__dict__
AddCheck(t) ==
  /\ tpc[t] = "add_check"
  /\ IF slot[tfields[t][tk[t]]] = NoFuture
       THEN /\ tpc' = [tpc EXCEPT ![t] = "add_store"]
            /\ UNCHANGED <<tk, tfields>>
       ELSE AddAdvance(t)
  /\ UNCHANGED <<Heap, Pool, tfut, titem, tacc, tadded, theld>>

\* _add_futures.add: obj.__dict__['_'+k] = pykka.ThreadingFuture();
\* added = True
AddStore(t) ==
  /\ tpc[t] = "add_store"
  /\ LET k == tfields[t][tk[t]] IN
       /\ slot' = [slot EXCEPT ![k] = <<k, t>>]
       /\ fmade' = fmade \cup {<<k, t>>}
  /\ tadded' = [tadded EXCEPT ![t] = TRUE]
  /\ AddAdvance(t)
  /\ UNCHANGED <<fqueue, fdata, Pool, tfut, titem, tacc, theld>>

SubmitsAlways(added) == TRUE

\* load_info: the list that _add_futures returned holds the Video if add
\* returned True; then the loop over range(0, len(list), 50) runs once.
Submits(added) == added

\* load_info: ThreadPool.run(job, (sublist,)) if the list is not empty; the
\* call returns to async_property.wrapper, or to the caller of load_info.
AddDone(t) ==
  /\ tpc[t] = "add_done"
  /\ IF Submits(tadded[t])
       THEN /\ fjobs' = Append(fjobs, "info")
            /\ ninfo' = ninfo + 1
       ELSE UNCHANGED <<fjobs, ninfo>>
  /\ tadded' = [tadded EXCEPT ![t] = FALSE]
  /\ tpc' = [tpc EXCEPT ![t] = IF tacc[t] = "none" THEN "idle" ELSE "acc_ret"]
  /\ UNCHANGED <<Heap, naudio, nops, tk, tfut, tfields, titem, tacc, theld>>

\* Video.audio_url: self._audio_url = pykka.ThreadingFuture()
AudioNew(t) ==
  /\ tpc[t] = "audio_new"
  /\ slot' = [slot EXCEPT !["audio_url"] = <<"audio_url", t>>]
  /\ fmade' = fmade \cup {<<"audio_url", t>>}
  /\ tpc' = [tpc EXCEPT ![t] = "audio_run"]
  /\ UNCHANGED <<fqueue, fdata, Pool, Locals, theld>>

\* Video.audio_url: ThreadPool.run(job)
AudioRun(t) ==
  /\ tpc[t] = "audio_run"
  /\ fjobs' = Append(fjobs, "audio")
  /\ naudio' = naudio + 1
  /\ tpc' = [tpc EXCEPT ![t] = "acc_ret"]
  /\ UNCHANGED <<Heap, ninfo, nops, Locals, theld>>

\* wrapper: return self.__dict__[_future_name]; the caller goes on to call
\* get on the future, or lets go of it.
AccessReturn(t) ==
  /\ tpc[t] = "acc_ret"
  /\ tacc' = [tacc EXCEPT ![t] = "none"]
  /\ \/ /\ theld' = [theld EXCEPT ![t] = slot[tacc[t]]]
        /\ tpc' = [tpc EXCEPT ![t] = "got"]
     \/ /\ tpc' = [tpc EXCEPT ![t] = "idle"]
        /\ UNCHANGED theld
  /\ UNCHANGED <<Heap, Pool, tk, tfut, tfields, titem, tadded>>

\* ThreadingFuture.get on the future the accessor returned, once it need
\* not wait: if self._data is None: self._data = self._queue.get(True);
\* return self._data['value']
Read(t) ==
  /\ tpc[t] = "got"
  /\ LET h == theld[t] IN
       \/ /\ fdata[h] # Empty
          /\ UNCHANGED <<fdata, fqueue>>
       \/ /\ fdata[h] = Empty
          /\ fqueue[h] # Empty
          /\ fdata' = [fdata EXCEPT ![h] = fqueue[h]]
          /\ fqueue' = [fqueue EXCEPT ![h] = Empty]
  /\ theld' = [theld EXCEPT ![t] = NoFuture]
  /\ tpc' = [tpc EXCEPT ![t] = "idle"]
  /\ UNCHANGED <<slot, fmade, Pool, Locals>>

\* Entry.search.create_object: a search result names the Video:
\* obj._set_api_data(['title', 'channel'], item)
Search(t) ==
  /\ t \in FClients
  /\ tpc[t] = "idle"
  /\ nops' = nops + 1
  /\ titem' = [titem EXCEPT ![t] = SearchVal]
  /\ tfields' = [tfields EXCEPT ![t] = SearchFields]
  /\ tk' = [tk EXCEPT ![t] = 1]
  /\ tpc' = [tpc EXCEPT ![t] = "set_get"]
  /\ UNCHANGED <<Heap, fjobs, ninfo, naudio, tfut, tacc, tadded, theld>>

\* ThreadPool.worker pops a job (the last of the list) and applies it.
\* load_info.job: data = API.list_videos(...); dict.get(video.id) is the
\* Video's item, or None if the call failed or the response lacks the id.
JobInfo(t) ==
  /\ t \in FWorkers
  /\ tpc[t] = "idle"
  /\ Len(fjobs) > 0
  /\ fjobs[Len(fjobs)] = "info"
  /\ fjobs' = SubSeq(fjobs, 1, Len(fjobs) - 1)
  /\ \E v \in {ListVal, None} : titem' = [titem EXCEPT ![t] = v]
  /\ tfields' = [tfields EXCEPT ![t] = InfoFields]
  /\ tk' = [tk EXCEPT ![t] = 1]
  /\ tpc' = [tpc EXCEPT ![t] = "set_get"]
  /\ UNCHANGED <<Heap, ninfo, naudio, nops, tfut, tacc, tadded, theld>>

\* ThreadPool.worker pops a job (the last of the list) and applies it.
\* audio_url.job: pafy.new raises (None is to be set), or an url is found,
\* or neither getbestaudio nor getbest gives a stream and uri.url raises
\* AttributeError.
JobAudio(t) ==
  /\ t \in FWorkers
  /\ tpc[t] = "idle"
  /\ Len(fjobs) > 0
  /\ fjobs[Len(fjobs)] = "audio"
  /\ fjobs' = SubSeq(fjobs, 1, Len(fjobs) - 1)
  /\ \/ /\ \E v \in {UrlVal, None} : titem' = [titem EXCEPT ![t] = v]
        /\ tpc' = [tpc EXCEPT ![t] = "audio_set"]
     \/ /\ tpc' = [tpc EXCEPT ![t] = "raised_attr"]
        /\ UNCHANGED titem
  /\ UNCHANGED <<Heap, ninfo, naudio, nops, tk, tfut, tfields, tacc, tadded,
                 theld>>

\* _set_api_data: future = self.__dict__.get(_k); if not future
SetGet(t) ==
  /\ tpc[t] = "set_get"
  /\ LET k == tfields[t][tk[t]] IN
       IF slot[k] = NoFuture
         THEN /\ tpc' = [tpc EXCEPT ![t] = "set_create"]
              /\ UNCHANGED tfut
         ELSE /\ tfut' = [tfut EXCEPT ![t] = slot[k]]
              /\ tpc' = [tpc EXCEPT ![t] = "set_empty"]
  /\ UNCHANGED <<Heap, Pool, tk, tfields, titem, tacc, tadded, theld>>

\* _set_api_data: future = self.__dict__[_k] = pykka.ThreadingFuture()
SetCreate(t) ==
  /\ tpc[t] = "set_create"
  /\ LET k == tfields[t][tk[t]] IN
       /\ slot' = [slot EXCEPT ![k] = <<k, t>>]
       /\ fmade' = fmade \cup {<<k, t>>}
       /\ tfut' = [tfut EXCEPT ![t] = <<k, t>>]
  /\ tpc' = [tpc EXCEPT ![t] = "set_empty"]
  /\ UNCHANGED <<fqueue, fdata, Pool, tk, tfields, titem, tacc, tadded, theld>>

\* _set_api_data: the next round of for k in fields, or return.
SetAdvance(t) ==
  /\ tfut' = [tfut EXCEPT ![t] = NoFuture]
  /\ IF tk[t] < Len(tfields[t])
       THEN /\ tk' = [tk EXCEPT ![t] = @ + 1]
            /\ tpc' = [tpc EXCEPT ![t] = "set_get"]
            /\ UNCHANGED <<tfields, titem>>
       ELSE /\ tk' = [tk EXCEPT ![t] = 0]
            /\ tpc' = [tpc EXCEPT ![t] = "idle"]
            /\ tfields' = [tfields EXCEPT ![t] = <<>>]
            /\ titem' = [titem EXCEPT ![t] = None]

\* The test by which _set_api_data takes a future to be set already:
\* not future._queue.empty()
IsSet(h) == fqueue[h] # Empty

\* _set_api_data: if not future._queue.empty(): continue
SetEmpty(t) ==
  /\ tpc[t] = "set_empty"
  /\ IF IsSet(tfut[t])
       THEN SetAdvance(t)
       ELSE /\ tpc' = [tpc EXCEPT ![t] = "set_set"]
            /\ UNCHANGED <<tk, tfut, tfields, titem>>
  /\ UNCHANGED <<Heap, Pool, tacc, tadded, theld>>

\* _set_api_data: val = None if not item, else the field taken from item;
\* future.set(val).  ThreadingFuture.set is _queue.put(..., block=False),
\* which raises Full when the queue of size 1 is occupied.
SetSet(t) ==
  /\ tpc[t] = "set_set"
  /\ IF fqueue[tfut[t]] # Empty
       THEN /\ tpc' = [tpc EXCEPT ![t] = "raised_full"]
            /\ UNCHANGED <<fqueue, tk, tfut, tfields, titem>>
       ELSE /\ fqueue' = [fqueue EXCEPT ![tfut[t]] = titem[t]]
            /\ SetAdvance(t)
  /\ UNCHANGED <<slot, fmade, fdata, Pool, tacc, tadded, theld>>

\* audio_url.job: self._audio_url.set(None) in the except clause, or
\* self._audio_url.set(uri.url); self._audio_url is read when set is called.
AudioSet(t) ==
  /\ tpc[t] = "audio_set"
  /\ LET h == slot["audio_url"] IN
       IF fqueue[h] # Empty
         THEN /\ tpc' = [tpc EXCEPT ![t] = "raised_full"]
              /\ UNCHANGED <<fqueue, titem>>
         ELSE /\ fqueue' = [fqueue EXCEPT ![h] = titem[t]]
              /\ tpc' = [tpc EXCEPT ![t] = "idle"]
              /\ titem' = [titem EXCEPT ![t] = None]
  /\ UNCHANGED <<slot, fmade, fdata, Pool, tk, tfut, tfields, tacc, tadded, theld>>

\* An exception leaves the call: in a worker, ThreadPool.worker logs it and
\* goes on; in a client, it reaches the caller of Entry.search.
Raised(t) ==
  /\ tpc[t] \in {"raised_full", "raised_attr"}
  /\ tpc' = [tpc EXCEPT ![t] = "idle"]
  /\ tk' = [tk EXCEPT ![t] = 0]
  /\ tfut' = [tfut EXCEPT ![t] = NoFuture]
  /\ tfields' = [tfields EXCEPT ![t] = <<>>]
  /\ titem' = [titem EXCEPT ![t] = None]
  /\ UNCHANGED <<Heap, Pool, tacc, tadded, theld>>

FieldStep(t) ==
  \/ \E f \in Fields : Access(t, f)
  \/ AddCheck(t)
  \/ AddStore(t)
  \/ AddDone(t)
  \/ AudioNew(t)
  \/ AudioRun(t)
  \/ AccessReturn(t)
  \/ Read(t)
  \/ Search(t)
  \/ JobInfo(t)
  \/ JobAudio(t)
  \/ SetGet(t)
  \/ SetCreate(t)
  \/ SetEmpty(t)
  \/ SetSet(t)
  \/ AudioSet(t)
  \/ Raised(t)

\* The clients make at most MaxOps calls.
FieldNext ==
  /\ \E t \in FThreads : FieldStep(t)
  /\ nops' <= MaxOps
  /\ UNCHANGED otherThanField

\* Video.load_info([video]) called on the Video directly, as
\* Playlist.videos.job calls it for the Videos of a page.
LoadInfo(t) ==
  /\ t \in FClients
  /\ tpc[t] = "idle"
  /\ nops' = nops + 1
  /\ tfields' = [tfields EXCEPT ![t] = InfoFields]
  /\ tk' = [tk EXCEPT ![t] = 1]
  /\ tpc' = [tpc EXCEPT ![t] = "add_check"]
  /\ UNCHANGED <<Heap, fjobs, ninfo, naudio, tfut, titem, tacc, tadded, theld>>

\* Playlist.videos.job: a page of a playlist names the Video:
\* video._set_api_data(['title'], item)
PageSeed(t) ==
  /\ t \in FClients
  /\ tpc[t] = "idle"
  /\ nops' = nops + 1
  /\ titem' = [titem EXCEPT ![t] = PageVal]
  /\ tfields' = [tfields EXCEPT ![t] = <<"title">>]
  /\ tk' = [tk EXCEPT ![t] = 1]
  /\ tpc' = [tpc EXCEPT ![t] = "set_get"]
  /\ UNCHANGED <<Heap, fjobs, ninfo, naudio, tfut, tacc, tadded, theld>>

\* The Video used by one thread: one client makes all the calls, one after
\* the other, while the worker runs the jobs.
SeqThreads == {1} \cup FWorkers

FieldSeqNext ==
  /\ \E t \in SeqThreads : FieldStep(t) \/ LoadInfo(t) \/ PageSeed(t)
  /\ nops' <= MaxSeqOps
  /\ UNCHANGED otherThanField

(***************************************************************************)
(*                     Claims on the futures of a Video                    *)
(***************************************************************************)
FuturesOf(f) == {h \in fmade : h[1] = f}

\* C5 as stated: however many threads read the properties of the Video at
\* once, one future is constructed for a field and one load job is passed
\* to ThreadPool.run for a field group.
OnePendingTransition ==
  /\ \A f \in Fields : Cardinality(FuturesOf(f)) <= 1
  /\ ninfo <= 1
  /\ naudio <= 1

Resolved(f) ==
  slot[f] # NoFuture /\ (fdata[slot[f]] # Empty \/ fqueue[slot[f]] # Empty)
ValueOf(f) ==
  IF fdata[slot[f]] # Empty THEN fdata[slot[f]] ELSE fqueue[slot[f]]
HasValue(h) == fdata[h] # Empty \/ fqueue[h] # Empty

\* C6 as stated: once a field is resolved it stays resolved with the same
\* value, and nothing is stored any more into a future that has got a
\* value, also after a reader took the value.
SingleResolution ==
  [][/\ \A f \in Fields :
          Resolved(f) => (Resolved(f)' /\ ValueOf(f)' = ValueOf(f))
     /\ \A h \in Futures :
          HasValue(h) => fqueue'[h] \in {fqueue[h], Empty}]_vars

\* C7 as stated: when two threads resolve the same pending field at once,
\* neither of them fails: no set raises.
ConcurrentResolve == \A t \in FThreads : tpc[t] # "raised_full"

\* C13 as stated: when the audio_url job has failed to find an url, because
\* pafy.new raised or because no stream is available, the future of
\* audio_url is set (to None): in no state has the job ended by an error
\* with the future left pending.
AudioFailureResolves ==
  \A t \in FWorkers : tpc[t] = "raised_attr" => Resolved("audio_url")

\* C18: while one thread uses the Video (reads of title, length and channel
\* in any order, searches and pages that seed it, calls of load_info), at
\* most one load job is passed to ThreadPool.run, so a load_info that finds
\* all the futures passes none; one future is constructed for a field, and
\* the slot of a field keeps the future it has got, which is what every
\* later read of the property returns.
NoRetrigger ==
  /\ [](ninfo <= 1)
  /\ [](\A f \in {"title", "length", "channel"} :
          Cardinality(FuturesOf(f)) <= 1)
  /\ [][\A f \in {"title", "length", "channel"} :
          slot[f] # NoFuture => slot'[f] = slot[f]]_vars

\* C18 witness: after a search, a read of length whose job has set it and
\* a read of the value, load_info has run over the Video, added no future
\* and is about to return.
NoRetriggerWitness ==
  /\ ninfo = 1
  /\ tpc[1] = "add_done"
  /\ tacc[1] = "none"
  /\ ~tadded[1]
  /\ fdata[slot["length"]] # Empty
  /\ ValueOf("title") = SearchVal

\* C20 as stated: the future that an accessor returned to a reader is the
\* one the slot of its field holds, in every later state in which the
\* reader holds it.
HandleStability ==
  \A t \in FClients : tpc[t] = "got" => theld[t] = slot[theld[t][1]]

(***************************************************************************)
(*              load_info.job: one chunk of Videos is resolved             *)
(*                                                                         *)
(* The job of Video.load_info runs for one sublist.  _add_futures gave     *)
(* every Video of the list a future for each of title, length and channel; *)
(* a Video may have been seeded before: by a page of a playlist (title),   *)
(* by a search result (title and channel), and a reader may have taken the *)
(* seeded title out of its future.  Videos outside the sublist belong to   *)
(* another chunk.  A value is a pair: what it is and the Video it is of.   *)
(***************************************************************************)
Videos == 1 .. NumVideos
Seeds == {"fresh", "paged", "searched", "read"}

JEmpty == <<"Empty", 0>>
\* val = None
JNone == <<"None", 0>>
\* dict.get(video.id) when dict has no such key
NoItem == <<"noitem", 0>>
\* the records of a response: a full one, and one without a duration that
\* the regular expression of _set_api_data matches (none at all, "P0D")
RecKinds == {"rec", "nodur"}

\* The sublist of a job holds Videos in the order of the list.
AsList(S) == SelectSeq([e \in 1 .. NumVideos |-> e], LAMBDA e : e \in S)

\* What a future holds for a reader: _data if get() has filled it, else
\* the content of _queue.
JValue(q, d, e, k) == IF d[<<e, k>>] # JEmpty THEN d[<<e, k>>] ELSE q[<<e, k>>]

\* _queue and _data of the future of field k of Video e after the seeding.
SeedQueue(seed, e, k) ==
  CASE seed = "paged" /\ k = "title" -> <<"paged", e>>
    [] seed = "searched" /\ k \in {"title", "channel"} -> <<"searched", e>>
    [] seed = "read" /\ k = "channel" -> <<"searched", e>>
    [] OTHER -> JEmpty
SeedData(seed, e, k) ==
  IF seed = "read" /\ k = "title" THEN <<"searched", e>> ELSE JEmpty

JobIdle ==
  /\ jsub = <<>>
  /\ jseed = [e \in Videos |-> "fresh"]
  /\ jcall = "none"
  /\ jdict = [e \in Videos |-> NoItem]
  /\ jq = [h \in Videos \X {"title", "length", "channel"} |-> JEmpty]
  /\ jd = [h \in Videos \X {"title", "length", "channel"} |-> JEmpty]
  /\ jpc = "idle"
  /\ je = 0
  /\ jk = 0

\* A worker applies job(sublist).
JobInit ==
  /\ \E S \in (SUBSET Videos) \ {{}} : jsub = AsList(S)
  /\ jseed \in [Videos -> Seeds]
  /\ jcall = "none"
  /\ jdict = [e \in Videos |-> NoItem]
  /\ jq = [h \in Videos \X {"title", "length", "channel"} |->
             SeedQueue(jseed[h[1]], h[1], h[2])]
  /\ jd = [h \in Videos \X {"title", "length", "channel"} |->
             SeedData(jseed[h[1]], h[1], h[2])]
  /\ jpc = "call"
  /\ je = 0
  /\ jk = 0

InSub(e) == \E i \in 1 .. Len(jsub) : jsub[i] = e

DictOnFailureKeepsAll == [e \in Videos |-> <<"rec", e>>]

\* job: except: dict = {}
DictOnFailure == [e \in Videos |-> NoItem]

\* job: data = API.list_videos([x.id for x in sublist]);
\* dict = {item['id']: item for item in data['items']}
\* The call raises, or the body it returns has no 'items' (an error body),
\* and the except clause is taken; or the response has a record for some of
\* the ids asked for.
JobCall ==
  /\ jpc = "call"
  /\ \/ /\ jcall' = "fail"
        /\ jdict' = DictOnFailure
     \/ /\ jcall' = "ok"
        /\ \E present \in SUBSET {e \in Videos : InSub(e)} :
             \E kind \in [Videos -> RecKinds] :
               jdict' = [e \in Videos |->
                           IF e \in present THEN <<kind[e], e>> ELSE NoItem]
  /\ jpc' = "set"
  /\ je' = 1
  /\ jk' = 1
  /\ UNCHANGED <<jsub, jseed, jq, jd>>

\* _set_api_data: if not item: val = None
ApiValNoItem == JNone

\* _set_api_data: the value of field k taken from item
ApiVal(k, item) == IF item = NoItem THEN ApiValNoItem ELSE <<k, item[2]>>

\* _set_api_data: item['contentDetails']['duration'] raises KeyError when
\* the record has no duration, and m.group raises AttributeError when the
\* duration has no 'PT' for re.search to find.
ApiRaises(k, item) == item # NoItem /\ k = "length" /\ item[1] = "nodur"

\* The next round of for k in fields, of for video in sublist, or the end
\* of the job.
JobAdvance ==
  IF jk < Len(InfoFields)
    THEN /\ jk' = jk + 1
         /\ UNCHANGED <<je, jpc>>
    ELSE IF je < Len(jsub)
      THEN /\ je' = je + 1
           /\ jk' = 1
           /\ UNCHANGED jpc
      ELSE /\ je' = 0
           /\ jk' = 0
           /\ jpc' = "done"

\* One round of the loop of video._set_api_data(fields, dict.get(video.id)):
\* the future exists; if its _queue is not empty: continue; else the value
\* is computed, which may raise, and future.set(val).
JobSet ==
  /\ jpc = "set"
  /\ LET e == jsub[je]
         k == InfoFields[jk]
         item == jdict[e]
     IN IF jq[<<e, k>>] # JEmpty
          THEN /\ JobAdvance
               /\ UNCHANGED jq
          ELSE IF ApiRaises(k, item)
            THEN /\ jpc' = "raised"
                 /\ UNCHANGED <<jq, je, jk>>
            ELSE /\ jq' = [jq EXCEPT ![<<e, k>>] = ApiVal(k, item)]
                 /\ JobAdvance
  /\ UNCHANGED <<jsub, jseed, jcall, jdict, jd>>

JobNext == (JobCall \/ JobSet) /\ UNCHANGED otherThanJob

\* The worker thread that runs the job is scheduled.
JobFairness == WF_vars(JobNext)

(***************************************************************************)
(*                        Claims on load_info.job                          *)
(***************************************************************************)
JFields == {"title", "length", "channel"}
JResolved(e, k) == JValue(jq, jd, e, k) # JEmpty
SeedValue(e, k) ==
  IF SeedData(jseed[e], e, k) # JEmpty
    THEN SeedData(jseed[e], e, k) ELSE SeedQueue(jseed[e], e, k)
JobEnded == jpc \in {"done", "raised"}

\* C11 as stated: when the list call of a chunk failed, the job ends
\* without an error and every field of every Video of the chunk is None.
FailureNullsAll ==
  jcall = "fail" =>
    /\ jpc # "raised"
    /\ jpc = "done" =>
         \A e \in Videos, k \in JFields :
           InSub(e) => JValue(jq, jd, e, k) = JNone

\* C11 amended: when the list call of a chunk failed, the job ends without
\* an error; every field of a Video of the chunk is resolved then: to None
\* if it was not resolved before the job, while a field resolved before
\* keeps its value for readers; the Videos of other chunks are as they were.
FailureNullsPending ==
  /\ jcall = "fail" =>
       /\ jpc # "raised"
       /\ jpc = "done" =>
            \A e \in Videos, k \in JFields :
              InSub(e) =>
                JValue(jq, jd, e, k) =
                  (IF SeedValue(e, k) = JEmpty THEN JNone ELSE SeedValue(e, k))
  /\ \A e \in Videos, k \in JFields :
       ~InSub(e) => /\ jq[<<e, k>>] = SeedQueue(jseed[e], e, k)
                    /\ jd[<<e, k>>] = SeedData(jseed[e], e, k)

\* C11 witness: the call failed and the job is done, for a chunk with a
\* fresh Video and a seeded one, while another chunk holds a seeded Video.
FailureWitness ==
  /\ jcall = "fail"
  /\ jpc = "done"
  /\ \E e \in Videos : InSub(e) /\ jseed[e] = "fresh"
  /\ \E e \in Videos : jseed[e] = "read"

\* C12 as stated: whatever the remote service returns for the job, every
\* field of every Video of the chunk, pending since _add_futures, is
\* eventually resolved, so that no reader of it blocks forever.
EveryPendingResolves ==
  \A e \in Videos : \A k \in JFields : InSub(e) ~> JResolved(e, k)

\* C14 as stated: when the list call succeeded and the job has ended, the
\* fields (not resolved before) of a Video of the chunk for which the
\* response has no record are None, and those of every Video of the chunk
\* that has a record are the values of its own record.
AbsentEntity ==
  (/\ jcall = "ok"
   /\ JobEnded
   /\ \E a \in Videos : InSub(a) /\ jdict[a] = NoItem) =>
    \A e \in Videos, k \in JFields :
      (InSub(e) /\ SeedValue(e, k) = JEmpty) =>
        JValue(jq, jd, e, k) = (IF jdict[e] = NoItem THEN JNone ELSE <<k, e>>)

(***************************************************************************)
(*            Playlist.videos.job: the pages of a playlist                 *)
(*                                                                         *)
(* The remote playlist has vlen videos, numbered from 1.  A request for    *)
(* max_results items from a page token either raises (no connection, a    *)
(* body that is not JSON), or returns an error body, which result.json()   *)
(* turns into a dict without 'items' and without 'nextPageToken' (HTTP     *)
(* 403, 404), or returns the next max_results videos, with a token if more *)
(* are left.  Video.get, video._set_api_data(['title'], item) and          *)
(* Video.load_info(myvideos), which the job calls for the items of a page, *)
(* are modelled in the other parts.                                        *)
(***************************************************************************)
NoData == [kind |-> "none", from |-> 0, to |-> 0]

VideosIdle ==
  /\ vlen = 0
  /\ vpc = "idle"
  /\ vall = <<>>
  /\ vpage = <<FALSE, 0>>
  /\ vdata = NoData
  /\ vset = <<FALSE, <<>>>>
  /\ vreq = <<>>
  /\ vfailed = FALSE

\* A worker applies the job: all_videos = []; page = ''
VideosInit ==
  /\ vlen \in 0 .. MaxMembers
  /\ vpc = "while"
  /\ vall = <<>>
  /\ vpage = <<TRUE, 0>>
  /\ vdata = NoData
  /\ vset = <<FALSE, <<>>>>
  /\ vreq = <<>>
  /\ vfailed = FALSE

\* while page is not None and len(all_videos) < self.max_videos
WhileTest == vpage[1] /\ Len(vall) < max_videos

\* max_results = min(self.max_videos - len(all_videos), 50)
MaxResults == Min(max_videos - Len(vall), PageMax)

\* The loop is entered: try: data = API.list_playlistitems(self.id, page,
\* max_results); except: break; page = data.get('nextPageToken') or None
VideosRequest ==
  /\ vpc = "while"
  /\ WhileTest
  /\ vreq' = Append(vreq, <<Len(vall), MaxResults>>)
  /\ \/ /\ vpc' = "set"
        /\ vfailed' = TRUE
        /\ UNCHANGED <<vpage, vdata>>
     \/ /\ vdata' = [kind |-> "error", from |-> 0, to |-> 0]
        /\ vpage' = <<FALSE, 0>>
        /\ vfailed' = TRUE
        /\ vpc' = "items"
     \/ /\ vdata' = [kind |-> "page", from |-> vpage[2] + 1,
                     to |-> Min(vpage[2] + MaxResults, vlen)]
        /\ vpage' = IF vpage[2] + MaxResults < vlen
                      THEN <<TRUE, vpage[2] + MaxResults>>
                      ELSE <<FALSE, 0>>
        /\ vpc' = "items"
        /\ UNCHANGED vfailed
  /\ UNCHANGED <<vlen, vall, vset>>

\* for item in data['items']: ...; myvideos.append(video);
\* all_videos += myvideos; Video.load_info(myvideos)
\* data['items'] raises KeyError if the body has no items.
VideosItems ==
  /\ vpc = "items"
  /\ IF vdata.kind = "error"
       THEN /\ vpc' = "raised"
            /\ UNCHANGED vall
       ELSE /\ vall' = vall \o [i \in 1 .. (vdata.to - vdata.from + 1) |->
                                  vdata.from + i - 1]
            /\ vpc' = "while"
  /\ vdata' = NoData
  /\ UNCHANGED <<vlen, vpage, vset, vreq, vfailed>>

\* The test of the while loop fails.
VideosExit ==
  /\ vpc = "while"
  /\ ~WhileTest
  /\ vpc' = "set"
  /\ UNCHANGED <<vlen, vall, vpage, vdata, vset, vreq, vfailed>>

\* self._videos.set(all_videos)
VideosSet ==
  /\ vpc = "set"
  /\ vset' = <<TRUE, vall>>
  /\ vpc' = "done"
  /\ UNCHANGED <<vlen, vall, vpage, vdata, vreq, vfailed>>

VideosNext ==
  /\ \/ VideosRequest
     \/ VideosItems
     \/ VideosExit
     \/ VideosSet
  /\ UNCHANGED otherThanVideos

(***************************************************************************)
(*                     Claims on Playlist.videos.job                       *)
(***************************************************************************)
VideosEnded == vpc \in {"done", "raised"}

\* C15 as stated: a request is made only while len(all_videos) is below
\* max_videos and the page before gave a token (vreq records the length at
\* each request), it asks for min(50, max_videos - len(all_videos)) items,
\* the loop is left without a failure only when one of the two conditions
\* fails, and the job ends with _videos set to a list of at most max_videos.
PaginationTermination ==
  /\ \A r \in 1 .. Len(vreq) :
       /\ vreq[r][1] < max_videos
       /\ vreq[r][2] = Min(PageMax, max_videos - vreq[r][1])
  /\ (vpc = "set" /\ ~vfailed) => (~vpage[1] \/ Len(vall) >= max_videos)
  /\ Len(vall) <= max_videos
  /\ VideosEnded => (vset[1] /\ Len(vset[2]) <= max_videos)

\* C16 as stated: when a request has failed and the job has ended, _videos
\* is set to the videos of the pages fetched before the failure.
MembersOnFailure ==
  (vfailed /\ VideosEnded) => (vset[1] /\ vset[2] = vall)

(***************************************************************************)
(*                            Specifications                               *)
(***************************************************************************)
\* The state after the module is imported: no thread of the pool, an empty
\* cache, no call of load_info, a Video without futures.
Init == PoolInit /\ CacheIdle /\ LoadIdle /\ FieldIdle /\ JobIdle /\ VideosIdle

\* The same, at a call of load_info.
InitLoad == PoolInit /\ CacheIdle /\ LoadInit /\ FieldIdle /\ JobIdle /\ VideosIdle

\* The same, at the start of a job of load_info.
InitJob == PoolInit /\ CacheIdle /\ LoadIdle /\ FieldIdle /\ JobInit /\ VideosIdle

\* The same, at the start of the job of Playlist.videos.
InitVideos ==
  PoolInit /\ CacheIdle /\ LoadIdle /\ FieldIdle /\ JobIdle /\ VideosInit

\* The thread pool: a client and the jobs submit, the workers run the jobs.
Spec == Init /\ [][PoolNext]_vars

\* The thread pool under fair thread scheduling.
FairSpec == Init /\ [][PoolNext]_vars /\ PoolFairness

\* Entry.get, called by one thread at a time.
CacheSpec == Init /\ [][CacheNext]_vars

\* Entry.get, called by two threads at once.
CacheConcSpec == Init /\ [][CacheConcNext]_vars

\* load_info, called once with a list of entries.
LoadSpec == InitLoad /\ [][LoadNext]_vars

\* One Video shared by two client threads and a worker thread.
FieldSpec == Init /\ [][FieldNext]_vars

\* A job of load_info, applied to one sublist.
ChunkSpec == InitJob /\ [][JobNext]_vars

\* The same, when the worker that runs the job is scheduled.
FairChunkSpec == InitJob /\ [][JobNext]_vars /\ JobFairness

\* One Video used by one client thread, and a worker thread.
FieldSeqSpec == Init /\ [][FieldSeqNext]_vars

\* The job of Playlist.videos, applied by a worker.
VideosSpec == InitVideos /\ [][VideosNext]_vars

====
